---- MODULE Spec2Model ----
(***************************************************************************)
(* Refund decision engine (app/engine.py), text-signal extraction          *)
(* (app/nlp.py) and the in-memory policy store with its request handlers   *)
(* (main.py).                                                              *)
(*                                                                         *)
(* Number representation.  Rule impacts and scores are whole points in the *)
(* engine (every rule adds an integer).  The action classifier takes a     *)
(* float, so it is modelled on scores in hundredths of a point, and        *)
(* confidences are in units of 1/14000: (score + 25) / 1.4 / 100 equals    *)
(* (score100 + 2500) / 14000, and 0.95, 0.90, 0.85, 0.6 are 13300, 12600,  *)
(* 11900, 8400 of these units.  Policy weights and the float fields of a   *)
(* signal bundle are in hundredths; a request weight may also be NaN.      *)
(* Rates are in thousandths and order values in cents.                     *)
(***************************************************************************)
EXTENDS Integers, Sequences, FiniteSets, TLC

VARIABLES policy_rules, _feature_cache, _client, OPENAI_API_KEY, response, nreq,
          tasks, running

vars == <<policy_rules, _feature_cache, _client, OPENAI_API_KEY, response, nreq,
          tasks, running>>

(***************************************************************************)
(* Floats that can be NaN (request weights).                               *)
(***************************************************************************)
Float(h) == [nan |-> FALSE, hundredths |-> h]

NaN == [nan |-> TRUE, hundredths |-> 0]

\* Python's < on floats: any comparison with NaN is False.
FloatLt(a, b) == ~a.nan /\ ~b.nan /\ a.hundredths < b.hundredths

FloatGt(a, b) == FloatLt(b, a)

Min(a, b) == IF a < b THEN a ELSE b

Max(a, b) == IF a > b THEN a ELSE b

(***************************************************************************)
(* app/schemas.py                                                          *)
(***************************************************************************)
ComplaintType == {"LATE_DELIVERY", "WRONG_ORDER", "MISSING_ITEMS",
                  "QUALITY_ISSUE", "DAMAGED_FOOD", "NEVER_ARRIVED"}

RefundAction == {"REFUND", "PARTIAL", "REJECT", "MANUAL_REVIEW"}

\* Optional[...] values: None is the empty sequence, a present value v is
\* the one-element sequence <<v>>.
None == <<>>

Some(v) == <<v>>

\* case.complaint_text when the case has no text (None; data.py maps the
\* empty CSV cell to None, and both are falsy where the handlers test it).
NoText == ""

(***************************************************************************)
(* app/engine.py: thresholds and the rule evaluators.                      *)
(***************************************************************************)
REFUND_THRESHOLD == 70

PARTIAL_THRESHOLD == 40

MANUAL_REVIEW_THRESHOLD_HIGH == 65

MANUAL_REVIEW_THRESHOLD_LOW == 45

\* Hundredths of a point per point.
ScoreUnit == 100

\* Confidence units per 1.0: 1.4 * 100 * ScoreUnit.
ConfUnit == 14000

DecisionReason(f, e, i) == [factor |-> f, explanation |-> e, impact |-> i]

_evaluate_complaint_severity(case) ==
    LET t == case.complaint_type
        score == CASE t = "NEVER_ARRIVED" -> 35
                   [] t = "DAMAGED_FOOD" -> 25
                   [] t = "WRONG_ORDER" -> 20
                   [] t = "MISSING_ITEMS" -> 18
                   [] t = "QUALITY_ISSUE" -> 15
                   [] t = "LATE_DELIVERY" -> 10
                   [] OTHER -> 10
        explanation == CASE t = "NEVER_ARRIVED" -> "Order never arrived"
                         [] t = "DAMAGED_FOOD" -> "Food damaged"
                         [] t = "WRONG_ORDER" -> "Wrong order delivered"
                         [] t = "MISSING_ITEMS" -> "Items missing from order"
                         [] t = "QUALITY_ISSUE" -> "Quality concern reported"
                         [] t = "LATE_DELIVERY" -> "Delivery was late"
                         [] OTHER -> "Unknown complaint"
    IN  [score |-> score,
         reason |-> DecisionReason("Complaint Severity", explanation, score)]

\* A delay rule whose tiers exclude their lower bound.
_evaluate_delivery_delay_exclusive(case) ==
    LET delay == case.delivery_delay_min
        r == IF delay > 60 THEN <<20, "Severe delay">>
             ELSE IF delay > 30 THEN <<12, "Significant delay">>
             ELSE IF delay > 15 THEN <<5, "Moderate delay">>
             ELSE <<0, "Minimal delay">>
    IN  [score |-> r[1], reason |-> DecisionReason("Delivery Delay", r[2], r[1])]

_evaluate_delivery_delay(case) ==
    LET delay == case.delivery_delay_min
        r == IF delay >= 60 THEN <<20, "Severe delay">>
             ELSE IF delay >= 30 THEN <<12, "Significant delay">>
             ELSE IF delay >= 15 THEN <<5, "Moderate delay">>
             ELSE <<0, "Minimal delay">>
    IN  [score |-> r[1], reason |-> DecisionReason("Delivery Delay", r[2], r[1])]

_evaluate_restaurant_error_rate(case) ==
    LET rate == case.restaurant_error_rate
        r == IF rate >= 300 THEN <<15, "High restaurant error rate">>
             ELSE IF rate >= 150 THEN <<8, "Moderate restaurant error rate">>
             ELSE IF rate >= 50 THEN <<3, "Low restaurant error rate">>
             ELSE <<0, "Excellent restaurant record">>
    IN  [score |-> r[1],
         reason |-> DecisionReason("Restaurant Reliability", r[2], r[1])]

_evaluate_customer_history(case) ==
    LET rate == case.customer_refund_rate
        r == IF rate >= 400 THEN <<-15, "High customer refund rate">>
             ELSE IF rate >= 200 THEN <<-8, "Elevated customer refund rate">>
             ELSE IF rate >= 100 THEN <<-3, "Moderate customer refund rate">>
             ELSE <<5, "Excellent customer history">>
    IN  [score |-> r[1], reason |-> DecisionReason("Customer History", r[2], r[1])]

_evaluate_evidence(case) ==
    LET r == IF case.photo_provided
             THEN <<10, "Photo evidence provided">>
             ELSE <<-5, "No photo evidence">>
    IN  [score |-> r[1], reason |-> DecisionReason("Evidence Quality", r[2], r[1])]

_evaluate_order_value(case) ==
    LET value == case.order_value
        r == IF value >= 10000 THEN <<10, "High-value order">>
             ELSE IF value >= 5000 THEN <<5, "Medium-value order">>
             ELSE IF value >= 2000 THEN <<2, "Standard order value">>
             ELSE <<0, "Low-value order">>
    IN  [score |-> r[1], reason |-> DecisionReason("Order Value", r[2], r[1])]

\* One "if flag: total += score; reasons.append(...)" block of
\* _evaluate_text_features, applied to the accumulator acc.
TextTerm(acc, fires, score, factor, explanation) ==
    IF fires
    THEN [total_score |-> acc.total_score + score,
          reasons |-> Append(acc.reasons,
                             DecisionReason(factor, explanation, score))]
    ELSE acc

\* A text rule that adds the item term once for missing_item and once for
\* wrong_item.
_evaluate_text_features_item_twice(features) ==
    LET a0 == [total_score |-> 0, reasons |-> <<>>]
        a1 == TextTerm(a0, features.temperature_problem, 8,
                       "TEXT_SIGNAL_Temperature", "temperature issues")
        a2 == TextTerm(a1, features.missing_item \/ features.wrong_item,
                       IF features.missing_item /\ features.wrong_item
                       THEN 24 ELSE 12,
                       "TEXT_SIGNAL_ItemIssue",
                       IF features.missing_item THEN "missing item"
                                                ELSE "wrong item")
        a3 == TextTerm(a2, features.delivery_spill, 10,
                       "TEXT_SIGNAL_DeliverySpill", "Delivery spill mentioned")
        a4 == TextTerm(a3, features.food_quality_issue, 7,
                       "TEXT_SIGNAL_FoodQuality", "Food quality issue")
        a5 == TextTerm(a4, features.packaging_problem, 6,
                       "TEXT_SIGNAL_Packaging", "Packaging problem mentioned")
        a6 == TextTerm(a5, features.vague_complaint, -8,
                       "TEXT_SIGNAL_VagueComplaint", "Complaint is vague")
        a7 == TextTerm(a6, features.customer_aggression > 70, -5,
                       "TEXT_SIGNAL_Aggression", "High aggression level")
        a8 == TextTerm(a7, features.evidence_strength > 60, 8,
                       "TEXT_SIGNAL_EvidenceStrength", "Strong evidence")
    IN  a8

\* A text rule whose aggression test includes the threshold.
_evaluate_text_features_inclusive(features) ==
    LET a0 == [total_score |-> 0, reasons |-> <<>>]
        a1 == TextTerm(a0, features.temperature_problem, 8,
                       "TEXT_SIGNAL_Temperature", "temperature issues")
        a2 == TextTerm(a1, features.missing_item \/ features.wrong_item, 12,
                       "TEXT_SIGNAL_ItemIssue",
                       IF features.missing_item THEN "missing item"
                                                ELSE "wrong item")
        a3 == TextTerm(a2, features.delivery_spill, 10,
                       "TEXT_SIGNAL_DeliverySpill", "Delivery spill mentioned")
        a4 == TextTerm(a3, features.food_quality_issue, 7,
                       "TEXT_SIGNAL_FoodQuality", "Food quality issue")
        a5 == TextTerm(a4, features.packaging_problem, 6,
                       "TEXT_SIGNAL_Packaging", "Packaging problem mentioned")
        a6 == TextTerm(a5, features.vague_complaint, -8,
                       "TEXT_SIGNAL_VagueComplaint", "Complaint is vague")
        a7 == TextTerm(a6, features.customer_aggression >= 70, -5,
                       "TEXT_SIGNAL_Aggression", "High aggression level")
        a8 == TextTerm(a7, features.evidence_strength > 60, 8,
                       "TEXT_SIGNAL_EvidenceStrength", "Strong evidence")
    IN  a8

_evaluate_text_features(features) ==
    LET a0 == [total_score |-> 0, reasons |-> <<>>]
        a1 == TextTerm(a0, features.temperature_problem, 8,
                       "TEXT_SIGNAL_Temperature", "temperature issues")
        a2 == TextTerm(a1, features.missing_item \/ features.wrong_item, 12,
                       "TEXT_SIGNAL_ItemIssue",
                       IF features.missing_item THEN "missing item"
                                                ELSE "wrong item")
        a3 == TextTerm(a2, features.delivery_spill, 10,
                       "TEXT_SIGNAL_DeliverySpill", "Delivery spill mentioned")
        a4 == TextTerm(a3, features.food_quality_issue, 7,
                       "TEXT_SIGNAL_FoodQuality", "Food quality issue")
        a5 == TextTerm(a4, features.packaging_problem, 6,
                       "TEXT_SIGNAL_Packaging", "Packaging problem mentioned")
        a6 == TextTerm(a5, features.vague_complaint, -8,
                       "TEXT_SIGNAL_VagueComplaint", "Complaint is vague")
        a7 == TextTerm(a6, features.customer_aggression > 70, -5,
                       "TEXT_SIGNAL_Aggression", "High aggression level")
        a8 == TextTerm(a7, features.evidence_strength > 60, 8,
                       "TEXT_SIGNAL_EvidenceStrength", "Strong evidence")
    IN  a8

\* A variant that stops after the low manual-review test: scores below it
\* fall off the end of the function and get no action.
_score_to_action_no_else(score) ==
    LET normalized == Max(0, Min(ConfUnit, score + 25 * ScoreUnit))
    IN  IF score >= REFUND_THRESHOLD * ScoreUnit
        THEN [action |-> "REFUND", confidence |-> Min(13300, normalized)]
        ELSE IF score >= MANUAL_REVIEW_THRESHOLD_HIGH * ScoreUnit
        THEN [action |-> "MANUAL_REVIEW", confidence |-> 8400]
        ELSE IF score >= PARTIAL_THRESHOLD * ScoreUnit
        THEN [action |-> "PARTIAL", confidence |-> Min(11900, normalized)]
        ELSE IF score >= MANUAL_REVIEW_THRESHOLD_LOW * ScoreUnit
        THEN [action |-> "MANUAL_REVIEW", confidence |-> 8400]
        ELSE [action |-> "None", confidence |-> 0]

\* A variant that tests the low manual-review threshold before the partial
\* threshold, so that the band [45, 65) is sent to manual review.
_score_to_action_low_first(score) ==
    LET normalized == Max(0, Min(ConfUnit, score + 25 * ScoreUnit))
    IN  IF score >= REFUND_THRESHOLD * ScoreUnit
        THEN [action |-> "REFUND", confidence |-> Min(13300, normalized)]
        ELSE IF score >= MANUAL_REVIEW_THRESHOLD_HIGH * ScoreUnit
        THEN [action |-> "MANUAL_REVIEW", confidence |-> 8400]
        ELSE IF score >= MANUAL_REVIEW_THRESHOLD_LOW * ScoreUnit
        THEN [action |-> "MANUAL_REVIEW", confidence |-> 8400]
        ELSE IF score >= PARTIAL_THRESHOLD * ScoreUnit
        THEN [action |-> "PARTIAL", confidence |-> Min(11900, normalized)]
        ELSE [action |-> "REJECT",
              confidence |-> Min(12600, ConfUnit - normalized)]

\* score is in hundredths of a point; normalized is normalized_score / 100
\* in confidence units.
_score_to_action(score) ==
    LET normalized == Max(0, Min(ConfUnit, score + 25 * ScoreUnit))
    IN  IF score >= REFUND_THRESHOLD * ScoreUnit
        THEN [action |-> "REFUND", confidence |-> Min(13300, normalized)]
        ELSE IF score >= MANUAL_REVIEW_THRESHOLD_HIGH * ScoreUnit
        THEN [action |-> "MANUAL_REVIEW", confidence |-> 8400]
        ELSE IF score >= PARTIAL_THRESHOLD * ScoreUnit
        THEN [action |-> "PARTIAL", confidence |-> Min(11900, normalized)]
        ELSE IF score >= MANUAL_REVIEW_THRESHOLD_LOW * ScoreUnit
        THEN [action |-> "MANUAL_REVIEW", confidence |-> 8400]
        ELSE [action |-> "REJECT",
              confidence |-> Min(12600, ConfUnit - normalized)]

\* An evaluation that scores the text signals of every bundle it is given,
\* whatever its confidence.
evaluate_case_no_gate(case, text_features) ==
    LET r1 == _evaluate_complaint_severity(case)
        r2 == _evaluate_delivery_delay(case)
        r3 == _evaluate_restaurant_error_rate(case)
        r4 == _evaluate_customer_history(case)
        r5 == _evaluate_evidence(case)
        r6 == _evaluate_order_value(case)
        score6 == r1.score + r2.score + r3.score + r4.score + r5.score
                  + r6.score
        reasons6 == <<r1.reason, r2.reason, r3.reason, r4.reason, r5.reason,
                      r6.reason>>
        fires == text_features # None
        text == IF fires THEN _evaluate_text_features(text_features[1])
                ELSE [total_score |-> 0, reasons |-> <<>>]
        score == score6 + text.total_score
        ac == _score_to_action(score * ScoreUnit)
    IN  [action |-> ac.action, confidence |-> ac.confidence,
         score |-> score, reasons |-> reasons6 \o text.reasons]

\* An evaluation that leaves out the scores of the rules the policy store
\* has disabled.
evaluate_case_policy(case, text_features) ==
    LET r1 == _evaluate_complaint_severity(case)
        r2 == _evaluate_delivery_delay(case)
        r3 == _evaluate_restaurant_error_rate(case)
        r4 == _evaluate_customer_history(case)
        r5 == _evaluate_evidence(case)
        r6 == _evaluate_order_value(case)
        on(code, x) == IF policy_rules[code].enabled THEN x ELSE 0
        score6 == on("COMPLAINT_SEVERITY", r1.score) + on("HIGH_DELAY", r2.score)
                  + on("RESTAURANT_ERROR", r3.score)
                  + on("CUSTOMER_RISK", r4.score)
                  + on("PHOTO_EVIDENCE", r5.score) + on("ORDER_VALUE", r6.score)
        reasons6 == <<r1.reason, r2.reason, r3.reason, r4.reason, r5.reason,
                      r6.reason>>
        fires == text_features # None /\ text_features[1].confidence > 0
        text == IF fires THEN _evaluate_text_features(text_features[1])
                ELSE [total_score |-> 0, reasons |-> <<>>]
        score == score6 + text.total_score
        ac == _score_to_action(score * ScoreUnit)
    IN  [action |-> ac.action, confidence |-> ac.confidence,
         score |-> score, reasons |-> reasons6 \o text.reasons]

\* text_features is None or Some(signal bundle).
evaluate_case(case, text_features) ==
    LET r1 == _evaluate_complaint_severity(case)
        r2 == _evaluate_delivery_delay(case)
        r3 == _evaluate_restaurant_error_rate(case)
        r4 == _evaluate_customer_history(case)
        r5 == _evaluate_evidence(case)
        r6 == _evaluate_order_value(case)
        score6 == r1.score + r2.score + r3.score + r4.score + r5.score
                  + r6.score
        reasons6 == <<r1.reason, r2.reason, r3.reason, r4.reason, r5.reason,
                      r6.reason>>
        fires == text_features # None /\ text_features[1].confidence > 0
        text == IF fires THEN _evaluate_text_features(text_features[1])
                ELSE [total_score |-> 0, reasons |-> <<>>]
        score == score6 + text.total_score
        ac == _score_to_action(score * ScoreUnit)
    IN  [action |-> ac.action, confidence |-> ac.confidence,
         score |-> score, reasons |-> reasons6 \o text.reasons]

(***************************************************************************)
(* main.py: the policy store and its handlers.  A handler is an operator   *)
(* from the module-level policy_rules dictionary and the request to the    *)
(* dictionary it leaves behind and the HTTP reply.                         *)
(***************************************************************************)
RuleCodes == {"COMPLAINT_SEVERITY", "HIGH_DELAY", "RESTAURANT_ERROR",
              "CUSTOMER_RISK", "PHOTO_EVIDENCE", "ORDER_VALUE",
              "VAGUE_COMPLAINT", "TEXT_SIGNALS"}

Description(code) ==
    CASE code = "COMPLAINT_SEVERITY" -> "Severity of complaint type"
      [] code = "HIGH_DELAY" -> "High delivery delay penalty"
      [] code = "RESTAURANT_ERROR" -> "Restaurant reliability score"
      [] code = "CUSTOMER_RISK" -> "Customer refund history risk"
      [] code = "PHOTO_EVIDENCE" -> "Photo evidence bonus"
      [] code = "ORDER_VALUE" -> "Order monetary value impact"
      [] code = "VAGUE_COMPLAINT" -> "Vague complaint penalty"
      [] code = "TEXT_SIGNALS" -> "LLM text intelligence signals"

InitialPolicyRules ==
    [code \in RuleCodes |->
        [enabled |-> TRUE, weight |-> Float(100),
         description |-> Description(code)]]

HTTP_OK == 200

HTTP_BAD_REQUEST == 400

HTTP_NOT_FOUND == 404

HTTP_SERVER_ERROR == 500

\* A toggle that switches the rule off instead of flipping it.
toggle_policy_rule_off(rules, rule_code) ==
    IF rule_code \notin DOMAIN rules
    THEN [rules |-> rules, status |-> HTTP_NOT_FOUND, enabled |-> FALSE]
    ELSE [rules |-> [rules EXCEPT ![rule_code].enabled = FALSE],
          status |-> HTTP_OK, enabled |-> FALSE]

toggle_policy_rule(rules, rule_code) ==
    IF rule_code \notin DOMAIN rules
    THEN [rules |-> rules, status |-> HTTP_NOT_FOUND, enabled |-> FALSE]
    ELSE [rules |-> [rules EXCEPT ![rule_code].enabled = ~@],
          status |-> HTTP_OK, enabled |-> ~rules[rule_code].enabled]

\* A weight update that treats weight 0 as switching the rule off.
update_policy_weight_zero_disables(rules, rule_code, weight) ==
    IF rule_code \notin DOMAIN rules
    THEN [rules |-> rules, status |-> HTTP_NOT_FOUND]
    ELSE IF FloatLt(weight, Float(0)) \/ FloatGt(weight, Float(200))
    THEN [rules |-> rules, status |-> HTTP_BAD_REQUEST]
    ELSE [rules |-> [rules EXCEPT ![rule_code].weight = weight,
                                  ![rule_code].enabled =
                                      IF weight = Float(0) THEN FALSE ELSE @],
          status |-> HTTP_OK]

\* A weight update that makes the range check before the lookup.
update_policy_weight_range_first(rules, rule_code, weight) ==
    IF FloatLt(weight, Float(0)) \/ FloatGt(weight, Float(200))
    THEN [rules |-> rules, status |-> HTTP_BAD_REQUEST]
    ELSE IF rule_code \notin DOMAIN rules
    THEN [rules |-> rules, status |-> HTTP_NOT_FOUND]
    ELSE [rules |-> [rules EXCEPT ![rule_code].weight = weight],
          status |-> HTTP_OK]

update_policy_weight(rules, rule_code, weight) ==
    IF rule_code \notin DOMAIN rules
    THEN [rules |-> rules, status |-> HTTP_NOT_FOUND]
    ELSE IF FloatLt(weight, Float(0)) \/ FloatGt(weight, Float(200))
    THEN [rules |-> rules, status |-> HTTP_BAD_REQUEST]
    ELSE [rules |-> [rules EXCEPT ![rule_code].weight = weight],
          status |-> HTTP_OK]

\* The preset names the requests of the model carry, and str.lower() on
\* them.
PresetInputs == {"strict", "friendly", "delay-tolerant", "STRICT",
                 "Friendly", "lenient"}

Lower(name) ==
    CASE name = "STRICT" -> "strict"
      [] name = "Friendly" -> "friendly"
      [] OTHER -> name

\* A preset handler that flips the enabled flags it should set.
apply_policy_preset_flip(rules, name) ==
    LET preset == Lower(name)
    IN  IF preset = "strict"
        THEN [rules |-> [rules EXCEPT !["CUSTOMER_RISK"].weight = Float(150),
                                      !["CUSTOMER_RISK"].enabled = ~@,
                                      !["VAGUE_COMPLAINT"].weight = Float(130),
                                      !["VAGUE_COMPLAINT"].enabled = ~@,
                                      !["PHOTO_EVIDENCE"].weight = Float(120)],
              status |-> HTTP_OK]
        ELSE IF preset = "friendly"
        THEN [rules |-> [rules EXCEPT !["CUSTOMER_RISK"].weight = Float(50),
                                      !["CUSTOMER_RISK"].enabled = ~@,
                                      !["PHOTO_EVIDENCE"].weight = Float(150),
                                      !["PHOTO_EVIDENCE"].enabled = ~@,
                                      !["VAGUE_COMPLAINT"].weight = Float(50)],
              status |-> HTTP_OK]
        ELSE IF preset = "delay-tolerant"
        THEN [rules |-> [rules EXCEPT !["HIGH_DELAY"].weight = Float(50),
                                      !["HIGH_DELAY"].enabled = ~@,
                                      !["COMPLAINT_SEVERITY"].weight = Float(120)],
              status |-> HTTP_OK]
        ELSE [rules |-> rules, status |-> HTTP_BAD_REQUEST]

\* A preset handler that starts from the initial store instead of the
\* current one, and so resets the rules the preset does not list.
apply_policy_preset_reset(rules, name) ==
    LET preset == Lower(name)
        base == [code \in DOMAIN rules |->
                    [enabled |-> TRUE, weight |-> Float(100),
                     description |-> rules[code].description]]
    IN  IF preset = "strict"
        THEN [rules |-> [base EXCEPT !["CUSTOMER_RISK"].weight = Float(150),
                                     !["VAGUE_COMPLAINT"].weight = Float(130),
                                     !["PHOTO_EVIDENCE"].weight = Float(120),
                                     !["PHOTO_EVIDENCE"].enabled =
                                         rules["PHOTO_EVIDENCE"].enabled],
              status |-> HTTP_OK]
        ELSE IF preset = "friendly"
        THEN [rules |-> [base EXCEPT !["CUSTOMER_RISK"].weight = Float(50),
                                     !["PHOTO_EVIDENCE"].weight = Float(150),
                                     !["VAGUE_COMPLAINT"].weight = Float(50),
                                     !["VAGUE_COMPLAINT"].enabled =
                                         rules["VAGUE_COMPLAINT"].enabled],
              status |-> HTTP_OK]
        ELSE IF preset = "delay-tolerant"
        THEN [rules |-> [base EXCEPT !["HIGH_DELAY"].weight = Float(50),
                                     !["COMPLAINT_SEVERITY"].weight = Float(120),
                                     !["COMPLAINT_SEVERITY"].enabled =
                                         rules["COMPLAINT_SEVERITY"].enabled],
              status |-> HTTP_OK]
        ELSE [rules |-> rules, status |-> HTTP_BAD_REQUEST]

apply_policy_preset(rules, name) ==
    LET preset == Lower(name)
    IN  IF preset = "strict"
        THEN [rules |-> [rules EXCEPT !["CUSTOMER_RISK"].weight = Float(150),
                                      !["CUSTOMER_RISK"].enabled = TRUE,
                                      !["VAGUE_COMPLAINT"].weight = Float(130),
                                      !["VAGUE_COMPLAINT"].enabled = TRUE,
                                      !["PHOTO_EVIDENCE"].weight = Float(120)],
              status |-> HTTP_OK]
        ELSE IF preset = "friendly"
        THEN [rules |-> [rules EXCEPT !["CUSTOMER_RISK"].weight = Float(50),
                                      !["CUSTOMER_RISK"].enabled = TRUE,
                                      !["PHOTO_EVIDENCE"].weight = Float(150),
                                      !["PHOTO_EVIDENCE"].enabled = TRUE,
                                      !["VAGUE_COMPLAINT"].weight = Float(50)],
              status |-> HTTP_OK]
        ELSE IF preset = "delay-tolerant"
        THEN [rules |-> [rules EXCEPT !["HIGH_DELAY"].weight = Float(50),
                                      !["HIGH_DELAY"].enabled = TRUE,
                                      !["COMPLAINT_SEVERITY"].weight = Float(120)],
              status |-> HTTP_OK]
        ELSE [rules |-> rules, status |-> HTTP_BAD_REQUEST]

\* The "rules" list of GET /policy, as the set of its entries.
get_policy(rules) ==
    {[rule_code |-> code, enabled |-> rules[code].enabled,
      weight |-> rules[code].weight, description |-> rules[code].description] :
        code \in DOMAIN rules}

(***************************************************************************)
(* app/nlp.py: the text-signal extractor, its client and its cache.        *)
(***************************************************************************)
Texts == {"The soup arrived cold and one item was missing", "Bad order"}

\* hashlib.md5(text.encode('utf-8')).hexdigest() on the texts of the model.
_get_cache_key(text) ==
    CASE text = "The soup arrived cold and one item was missing"
           -> "99e3561a99f74abae66b0f78ee0d462c"
      [] text = "Bad order" -> "bfde4851453ee82b2b20e25936f4a3b1"

CacheKeys == {_get_cache_key(t) : t \in Texts}

\* _feature_cache = {}: every key maps to None (no entry).
EmptyCache == [k \in CacheKeys |-> None]

Features(fq, mi, wi, tp, pp, ds, vc, ca, es, co) ==
    [food_quality_issue |-> fq, missing_item |-> mi, wrong_item |-> wi,
     temperature_problem |-> tp, packaging_problem |-> pp,
     delivery_spill |-> ds, vague_complaint |-> vc,
     customer_aggression |-> ca, evidence_strength |-> es, confidence |-> co]

_get_fallback_features ==
    Features(FALSE, FALSE, FALSE, FALSE, FALSE, FALSE, FALSE, 0, 0, 0)

\* max(0.0, min(1.0, x)) as Python evaluates it: min keeps 1.0 unless
\* x < 1.0, max keeps 0.0 unless the result is > 0.0, so NaN becomes 1.0.
Clamp01(x) ==
    LET m == IF FloatLt(x, Float(100)) THEN x ELSE Float(100)
    IN  IF FloatGt(m, Float(0)) THEN m.hundredths ELSE 0

\* The replies of client.chat.completions.create(...) and what parsing
\* them does: an OpenAIError, a timeout, a content that is not JSON, a JSON
\* object that lacks a required field, a float field that float() rejects,
\* or a complete object.  features holds the parsed object (raw floats).
ReplyKinds == {"api_error", "timeout", "not_json", "missing_field",
               "bad_float", "ok"}

FailureKinds == ReplyKinds \ {"ok"}

RawFeatures ==
    {Features(FALSE, TRUE, FALSE, TRUE, FALSE, FALSE, FALSE,
              Float(10), Float(80), Float(90)),
     Features(FALSE, FALSE, FALSE, FALSE, FALSE, FALSE, TRUE,
              Float(90), Float(0), Float(150)),
     Features(TRUE, FALSE, TRUE, FALSE, FALSE, TRUE, FALSE,
              Float(71), Float(61), Float(-20)),
     Features(FALSE, FALSE, FALSE, FALSE, TRUE, FALSE, FALSE,
              Float(70), NaN, NaN),
     Features(FALSE, FALSE, FALSE, FALSE, FALSE, FALSE, FALSE,
              Float(0), Float(0), Float(0))}

Replies == [kind : ReplyKinds, features : RawFeatures]

\* The loop "features[field] = max(0.0, min(1.0, float(features[field])))".
Validate(raw) ==
    [raw EXCEPT !.customer_aggression = Clamp01(@),
                !.evidence_strength = Clamp01(@),
                !.confidence = Clamp01(@)]

\* client is the module-level _client ("None" or "client"); ctor_raises
\* says whether OpenAI(api_key=...) raises when it is called.
_get_client(client, api_key, ctor_raises) ==
    IF client = "None" /\ api_key # ""
    THEN IF ctor_raises
         THEN [client |-> client, raised |-> TRUE]
         ELSE [client |-> "client", raised |-> FALSE]
    ELSE [client |-> client, raised |-> FALSE]

ExtractResult(cache, client, raised, features, provider_called) ==
    [cache |-> cache, client |-> client, raised |-> raised,
     features |-> features, provider_called |-> provider_called]

\* An extractor that, when a required field is missing from the reply,
\* keeps the fields it parsed instead of falling back.
extract_text_features_partial(cache, client, api_key, text, ctor_raises, reply) ==
    LET cache_key == _get_cache_key(text)
        g == _get_client(client, api_key, ctor_raises)
    IN  IF cache[cache_key] # None
        THEN ExtractResult(cache, client, FALSE, cache[cache_key][1], FALSE)
        ELSE IF g.raised
        THEN ExtractResult(cache, g.client, TRUE, _get_fallback_features, FALSE)
        ELSE IF g.client = "None"
        THEN ExtractResult(cache, g.client, FALSE, _get_fallback_features, FALSE)
        ELSE IF reply.kind \in {"ok", "missing_field"}
        THEN LET features == Validate(reply.features)
             IN  ExtractResult([cache EXCEPT ![cache_key] = Some(features)],
                               g.client, FALSE, features, TRUE)
        ELSE ExtractResult(cache, g.client, FALSE, _get_fallback_features, TRUE)

\* An extractor that stores the fallback bundle when the provider fails.
extract_text_features_cache_fallback(cache, client, api_key, text, ctor_raises, reply) ==
    LET cache_key == _get_cache_key(text)
        g == _get_client(client, api_key, ctor_raises)
    IN  IF cache[cache_key] # None
        THEN ExtractResult(cache, client, FALSE, cache[cache_key][1], FALSE)
        ELSE IF g.raised
        THEN ExtractResult(cache, g.client, TRUE, _get_fallback_features, FALSE)
        ELSE IF g.client = "None"
        THEN ExtractResult(cache, g.client, FALSE, _get_fallback_features, FALSE)
        ELSE IF reply.kind = "ok"
        THEN LET features == Validate(reply.features)
             IN  ExtractResult([cache EXCEPT ![cache_key] = Some(features)],
                               g.client, FALSE, features, TRUE)
        ELSE ExtractResult(
                 [cache EXCEPT ![cache_key] = Some(_get_fallback_features)],
                 g.client, FALSE, _get_fallback_features, TRUE)

extract_text_features(cache, client, api_key, text, ctor_raises, reply) ==
    LET cache_key == _get_cache_key(text)
        g == _get_client(client, api_key, ctor_raises)
    IN  IF cache[cache_key] # None
        THEN ExtractResult(cache, client, FALSE, cache[cache_key][1], FALSE)
        ELSE IF g.raised
        THEN \* _get_client() is called outside the try block
             ExtractResult(cache, g.client, TRUE, _get_fallback_features, FALSE)
        ELSE IF g.client = "None"
        THEN ExtractResult(cache, g.client, FALSE, _get_fallback_features, FALSE)
        ELSE IF reply.kind = "ok"
        THEN LET features == Validate(reply.features)
             IN  ExtractResult([cache EXCEPT ![cache_key] = Some(features)],
                               g.client, FALSE, features, TRUE)
        ELSE \* except (...) as e: return _get_fallback_features()
             ExtractResult(cache, g.client, FALSE, _get_fallback_features, TRUE)

\* A clear_cache without "global _feature_cache": the assignment binds a
\* local name and the module-level cache keeps its entries.
clear_cache_local == _feature_cache

clear_cache == EmptyCache

(***************************************************************************)
(* Cases.                                                                  *)
(***************************************************************************)
Case(id, value, delay, rest, cust, type, photo, text) ==
    [case_id |-> id, order_value |-> value, delivery_delay_min |-> delay,
     restaurant_error_rate |-> rest, customer_refund_rate |-> cust,
     complaint_type |-> type, photo_provided |-> photo,
     complaint_text |-> text]

\* The rows of data/cases.csv in the model.
StoredCases ==
    {Case("CASE0001", 12000, 70, 350, 50, "NEVER_ARRIVED", TRUE, NoText),
     Case("CASE0002", 1500, 5, 20, 50, "LATE_DELIVERY", FALSE, NoText),
     Case("CASE0003", 3500, 20, 200, 150, "QUALITY_ISSUE", TRUE,
          "The soup arrived cold and one item was missing"),
     Case("CASE0004", 5000, 45, 100, 450, "WRONG_ORDER", FALSE, "Bad order")}

CaseIdInputs == {c.case_id : c \in StoredCases} \cup {"CASE9999"}

\* Values on both sides of every tier boundary of the rule evaluators.
DelayValues == {0, 14, 15, 29, 30, 59, 60}

RestaurantRateValues == {0, 49, 50, 149, 150, 299, 300}

CustomerRateValues == {0, 99, 100, 199, 200, 399, 400}

OrderValues == {0, 1999, 2000, 4999, 5000, 9999, 10000}

AllCases ==
    {Case("CASE", v, d, r, c, t, ph, NoText) :
        v \in OrderValues, d \in DelayValues, r \in RestaurantRateValues,
        c \in CustomerRateValues, t \in ComplaintType, ph \in BOOLEAN}

\* The cases with the highest and the lowest rule scores, and two between.
FewCases ==
    {Case("CASE", 10000, 60, 300, 0, "NEVER_ARRIVED", TRUE, NoText),
     Case("CASE", 0, 0, 0, 400, "LATE_DELIVERY", FALSE, NoText),
     Case("CASE", 5000, 30, 150, 100, "WRONG_ORDER", TRUE, NoText),
     Case("CASE", 2000, 15, 50, 200, "MISSING_ITEMS", FALSE, NoText)}

AllBundles ==
    {Features(fq, mi, wi, tp, pp, ds, vc, ca, es, co) :
        fq \in BOOLEAN, mi \in BOOLEAN, wi \in BOOLEAN, tp \in BOOLEAN,
        pp \in BOOLEAN, ds \in BOOLEAN, vc \in BOOLEAN,
        ca \in {70, 71}, es \in {60, 61}, co \in {0, 90}}

FewBundles ==
    {None, Some(_get_fallback_features)}
        \cup {Some(Validate(raw)) : raw \in RawFeatures}

\* The (case, text_features) pairs the evaluations of the model are run on.
EvalInputs ==
    (AllCases \X FewBundles) \cup (FewCases \X {Some(b) : b \in AllBundles})

\* The inputs of the evaluations made between policy requests.
ProbeCases == {c \in StoredCases : c.case_id \in {"CASE0001", "CASE0004"}}

ProbeBundles ==
    {None, Some(_get_fallback_features)}
        \cup {Some(Validate(raw)) : raw \in {r \in RawFeatures : r.vague_complaint}}

ProbeInputs == ProbeCases \X ProbeBundles

\* Policy requests.
RuleCodeInputs == RuleCodes \cup {"NO_SUCH_RULE"}

WeightInputs == {Float(-1), Float(0), Float(200), Float(201), NaN}

\* Number of policy-changing requests (toggle, weight, preset) in a run.
MaxRequests == 2

\* The scores (hundredths of a point) the classifier is run on go from
\* -ClassifyBelow to ClassifyMax.
ClassifyBelow == 4000

ClassifyMax == 15000

(***************************************************************************)
(* State: the module-level dictionaries and client, the environment, and   *)
(* the reply to the last request.                                          *)
(***************************************************************************)
Idle ==
    [op |-> "idle", status |-> 0, rule_code |-> "", weight |-> Float(0),
     preset |-> "", enabled |-> FALSE, rules |-> {}, case |-> None,
     text |-> "", text_features |-> None, suggestion |-> None,
     raised |-> FALSE, provider_called |-> FALSE, reply_kind |-> "",
     score |-> 0]

InitState(key) ==
    /\ policy_rules = InitialPolicyRules
    /\ _feature_cache = EmptyCache
    /\ _client = "None"
    /\ OPENAI_API_KEY = key
    /\ response = Idle
    /\ nreq = 0
    /\ tasks = <<>>
    /\ running = 0

Init == InitState("")

InitNlp == \E key \in {"", "sk-test"} : InitState(key)

nlpVars == <<_feature_cache, _client, OPENAI_API_KEY>>

\* The handler coroutines on the event loop: tasks holds one record per
\* request being served, running is the task the loop is executing (0 when
\* the loop is free to pick one).
concVars == <<tasks, running>>

(***************************************************************************)
(* main.py: policy handlers.                                               *)
(***************************************************************************)
TogglePolicyRule(rule_code) ==
    /\ nreq < MaxRequests
    /\ LET r == toggle_policy_rule(policy_rules, rule_code)
       IN  /\ policy_rules' = r.rules
           /\ response' = [Idle EXCEPT !.op = "toggle", !.status = r.status,
                                       !.rule_code = rule_code,
                                       !.enabled = r.enabled]
    /\ nreq' = nreq + 1
    /\ UNCHANGED nlpVars
    /\ UNCHANGED concVars

UpdatePolicyWeight(rule_code, weight) ==
    /\ nreq < MaxRequests
    /\ LET r == update_policy_weight(policy_rules, rule_code, weight)
       IN  /\ policy_rules' = r.rules
           /\ response' = [Idle EXCEPT !.op = "set_weight",
                                       !.status = r.status,
                                       !.rule_code = rule_code,
                                       !.weight = weight]
    /\ nreq' = nreq + 1
    /\ UNCHANGED nlpVars
    /\ UNCHANGED concVars

ApplyPolicyPreset(name) ==
    /\ nreq < MaxRequests
    /\ LET r == apply_policy_preset(policy_rules, name)
       IN  /\ policy_rules' = r.rules
           /\ response' = [Idle EXCEPT !.op = "preset", !.status = r.status,
                                       !.preset = name]
    /\ nreq' = nreq + 1
    /\ UNCHANGED nlpVars
    /\ UNCHANGED concVars

GetPolicy ==
    /\ response' = [Idle EXCEPT !.op = "get_policy", !.status = HTTP_OK,
                                !.rules = get_policy(policy_rules)]
    /\ UNCHANGED <<policy_rules, nreq>>
    /\ UNCHANGED nlpVars
    /\ UNCHANGED concVars

\* engine.evaluate_case(case, text_features), as main.py lines 130 and 187
\* call it on the module-level engine.
EvaluateCase(case, text_features) ==
    /\ response' = [Idle EXCEPT !.op = "evaluate", !.status = HTTP_OK,
                                !.case = Some(case),
                                !.text_features = text_features,
                                !.suggestion =
                                    Some(evaluate_case(case, text_features))]
    /\ UNCHANGED <<policy_rules, nreq>>
    /\ UNCHANGED nlpVars
    /\ UNCHANGED concVars

\* engine._score_to_action(score, case) on its own; the suggestion of the
\* reply carries the score in hundredths.
ScoreToAction(score) ==
    /\ response' = [Idle EXCEPT !.op = "classify", !.status = HTTP_OK,
                                !.score = score,
                                !.suggestion =
                                    LET ac == _score_to_action(score)
                                    IN  Some([action |-> ac.action,
                                              confidence |-> ac.confidence,
                                              score |-> score,
                                              reasons |-> <<>>])]
    /\ UNCHANGED <<policy_rules, nreq>>
    /\ UNCHANGED nlpVars
    /\ UNCHANGED concVars

(***************************************************************************)
(* app/nlp.py and main.py: extraction and the case handler.                *)
(***************************************************************************)
ExtractTextFeatures(text, ctor_raises, reply) ==
    /\ LET r == extract_text_features(_feature_cache, _client, OPENAI_API_KEY,
                                      text, ctor_raises, reply)
       IN  /\ _feature_cache' = r.cache
           /\ _client' = r.client
           /\ response' =
                [Idle EXCEPT !.op = "extract",
                             !.status = IF r.raised THEN HTTP_SERVER_ERROR
                                                    ELSE HTTP_OK,
                             !.text = text,
                             !.raised = r.raised,
                             !.text_features =
                                 IF r.raised THEN None ELSE Some(r.features),
                             !.provider_called = r.provider_called,
                             !.reply_kind =
                                 IF r.provider_called THEN reply.kind ELSE ""]
    /\ UNCHANGED <<policy_rules, OPENAI_API_KEY, nreq>>
    /\ UNCHANGED concVars

ClearCache ==
    /\ _feature_cache' = clear_cache
    /\ response' = [Idle EXCEPT !.op = "clear_cache", !.status = HTTP_OK]
    /\ UNCHANGED <<policy_rules, _client, OPENAI_API_KEY, nreq>>
    /\ UNCHANGED concVars

\* GET /cases/{case_id}.
GetCaseById(case_id, ctor_raises, reply) ==
    /\ IF \A c \in StoredCases : c.case_id # case_id
       THEN /\ response' = [Idle EXCEPT !.op = "get_case",
                                        !.status = HTTP_NOT_FOUND]
            /\ UNCHANGED <<_feature_cache, _client>>
       ELSE LET target_case == CHOOSE c \in StoredCases : c.case_id = case_id
            IN  IF target_case.complaint_text = NoText
                THEN /\ response' =
                          [Idle EXCEPT !.op = "get_case", !.status = HTTP_OK,
                                       !.case = Some(target_case),
                                       !.suggestion =
                                           Some(evaluate_case(target_case, None))]
                     /\ UNCHANGED <<_feature_cache, _client>>
                ELSE LET r == extract_text_features(
                                  _feature_cache, _client, OPENAI_API_KEY,
                                  target_case.complaint_text, ctor_raises, reply)
                     IN  /\ _feature_cache' = r.cache
                         /\ _client' = r.client
                         /\ response' =
                              [Idle EXCEPT
                                 !.op = "get_case",
                                 !.status = IF r.raised THEN HTTP_SERVER_ERROR
                                                        ELSE HTTP_OK,
                                 !.case = Some(target_case),
                                 !.text = target_case.complaint_text,
                                 !.raised = r.raised,
                                 !.text_features =
                                     IF r.raised THEN None
                                                 ELSE Some(r.features),
                                 !.suggestion =
                                     IF r.raised THEN None
                                     ELSE Some(evaluate_case(target_case,
                                                             Some(r.features))),
                                 !.provider_called = r.provider_called,
                                 !.reply_kind =
                                     IF r.provider_called THEN reply.kind
                                                          ELSE ""]
    /\ UNCHANGED <<policy_rules, OPENAI_API_KEY, nreq>>
    /\ UNCHANGED concVars

(***************************************************************************)
(* main.py under concurrent requests.  Every handler is an "async def"     *)
(* coroutine served by the one event loop of uvicorn.run(app): the loop    *)
(* runs a coroutine until it awaits or returns.  The handlers are split    *)
(* into their statements; pc is the statement a task executes next.        *)
(***************************************************************************)
Request(op, rule_code, weight, preset) ==
    [op |-> op, rule_code |-> rule_code, weight |-> weight, preset |-> preset]

ConcRequests ==
    {Request("toggle", "CUSTOMER_RISK", Float(0), ""),
     Request("set_weight", "CUSTOMER_RISK", Float(50), ""),
     Request("preset", "", Float(0), "strict"),
     Request("get_policy", "", Float(0), ""),
     Request("evaluate", "", Float(0), "")}

\* The case of the evaluation requests (GET /cases/CASE0001, no text).
ConcCase == CHOOSE c \in StoredCases : c.case_id = "CASE0001"

MaxTasks == 3

NewTask(req) ==
    [req |-> req, pc |-> 1, done |-> FALSE, status |-> 0, tmp |-> FALSE,
     enabled |-> FALSE, rules |-> {}, score |-> 0]

Return(task, status) == [task EXCEPT !.done = TRUE, !.status = status]

Goto(task, pc) == [task EXCEPT !.pc = pc]

StepResult(rules, task) == [rules |-> rules, task |-> task]

\* The statements of a handler at which the coroutine suspends, as
\* <<op, pc>>: the statements that contain an "await".  No handler of
\* main.py contains one.
AwaitPoints_in_handlers == {<<"toggle", 3>>, <<"preset", 4>>}

AwaitPoints == {}

\* policy_rules.items() iterates in insertion order.
RuleOrder ==
    <<"COMPLAINT_SEVERITY", "HIGH_DELAY", "RESTAURANT_ERROR", "CUSTOMER_RISK",
      "PHOTO_EVIDENCE", "ORDER_VALUE", "VAGUE_COMPLAINT", "TEXT_SIGNALS">>

\* The assignments of each branch of apply_policy_preset, in order.
PresetStatements(preset) ==
    CASE preset = "strict"
           -> <<[rule_code |-> "CUSTOMER_RISK", field |-> "weight", weight |-> 150],
                [rule_code |-> "CUSTOMER_RISK", field |-> "enabled", weight |-> 0],
                [rule_code |-> "VAGUE_COMPLAINT", field |-> "weight", weight |-> 130],
                [rule_code |-> "VAGUE_COMPLAINT", field |-> "enabled", weight |-> 0],
                [rule_code |-> "PHOTO_EVIDENCE", field |-> "weight", weight |-> 120]>>
      [] preset = "friendly"
           -> <<[rule_code |-> "CUSTOMER_RISK", field |-> "weight", weight |-> 50],
                [rule_code |-> "CUSTOMER_RISK", field |-> "enabled", weight |-> 0],
                [rule_code |-> "PHOTO_EVIDENCE", field |-> "weight", weight |-> 150],
                [rule_code |-> "PHOTO_EVIDENCE", field |-> "enabled", weight |-> 0],
                [rule_code |-> "VAGUE_COMPLAINT", field |-> "weight", weight |-> 50]>>
      [] preset = "delay-tolerant"
           -> <<[rule_code |-> "HIGH_DELAY", field |-> "weight", weight |-> 50],
                [rule_code |-> "HIGH_DELAY", field |-> "enabled", weight |-> 0],
                [rule_code |-> "COMPLAINT_SEVERITY", field |-> "weight", weight |-> 120]>>
      [] OTHER -> <<>>

\* toggle_policy_rule: 1 the membership test, 2 the read of
\* "not policy_rules[rule_code]['enabled']", 3 the store of it, 4 the read
\* of the flag for the reply.
toggle_step(rules, task) ==
    LET rule_code == task.req.rule_code
    IN  CASE task.pc = 1
               -> IF rule_code \notin DOMAIN rules
                  THEN StepResult(rules, Return(task, HTTP_NOT_FOUND))
                  ELSE StepResult(rules, Goto(task, 2))
          [] task.pc = 2
               -> StepResult(rules, [Goto(task, 3) EXCEPT
                                        !.tmp = ~rules[rule_code].enabled])
          [] task.pc = 3
               -> StepResult([rules EXCEPT ![rule_code].enabled = task.tmp],
                             Goto(task, 4))
          [] task.pc = 4
               -> StepResult(rules, [Return(task, HTTP_OK) EXCEPT
                                        !.enabled = rules[rule_code].enabled])

\* update_policy_weight: 1 the membership test, 2 the range test, 3 the
\* store of the weight and the reply.
weight_step(rules, task) ==
    LET rule_code == task.req.rule_code
        weight == task.req.weight
    IN  CASE task.pc = 1
               -> IF rule_code \notin DOMAIN rules
                  THEN StepResult(rules, Return(task, HTTP_NOT_FOUND))
                  ELSE StepResult(rules, Goto(task, 2))
          [] task.pc = 2
               -> IF FloatLt(weight, Float(0)) \/ FloatGt(weight, Float(200))
                  THEN StepResult(rules, Return(task, HTTP_BAD_REQUEST))
                  ELSE StepResult(rules, Goto(task, 3))
          [] task.pc = 3
               -> StepResult([rules EXCEPT ![rule_code].weight = weight],
                             Return(task, HTTP_OK))

\* apply_policy_preset: 1 the lower() and the branch, 2.. the assignments
\* of the branch, the last one followed by the reply.
preset_step(rules, task) ==
    LET stmts == PresetStatements(Lower(task.req.preset))
    IN  IF task.pc = 1
        THEN IF stmts = <<>>
             THEN StepResult(rules, Return(task, HTTP_BAD_REQUEST))
             ELSE StepResult(rules, Goto(task, 2))
        ELSE LET w == stmts[task.pc - 1]
                 written ==
                     IF w.field = "weight"
                     THEN [rules EXCEPT ![w.rule_code].weight = Float(w.weight)]
                     ELSE [rules EXCEPT ![w.rule_code].enabled = TRUE]
             IN  IF task.pc - 1 = Len(stmts)
                 THEN StepResult(written, Return(task, HTTP_OK))
                 ELSE StepResult(written, Goto(task, task.pc + 1))

\* get_policy: the list comprehension reads one rule per iteration.
get_policy_step(rules, task) ==
    LET code == RuleOrder[task.pc]
        entry == [rule_code |-> code, enabled |-> rules[code].enabled,
                  weight |-> rules[code].weight,
                  description |-> rules[code].description]
        read == [task EXCEPT !.rules = @ \cup {entry}]
    IN  IF task.pc = Len(RuleOrder)
        THEN StepResult(rules, Return(read, HTTP_OK))
        ELSE StepResult(rules, Goto(read, task.pc + 1))

\* get_case_by_id on a case without text: engine.evaluate_case(case, None).
evaluate_step(rules, task) ==
    StepResult(rules, [Return(task, HTTP_OK) EXCEPT
                          !.score = evaluate_case(ConcCase, None).score])

\* A request arrives and its handler coroutine is scheduled.
Arrive(req) ==
    /\ Len(tasks) < MaxTasks
    /\ tasks' = Append(tasks, NewTask(req))
    /\ UNCHANGED <<policy_rules, response, nreq, running>>
    /\ UNCHANGED nlpVars

\* The loop runs task t when it is executing t, or when it is free.
CanRun(t) == ~tasks[t].done /\ running \in {0, t}

\* One statement of task t; the loop keeps t unless t returned or stands
\* at an await.
Run(t, r) ==
    /\ policy_rules' = r.rules
    /\ tasks' = [tasks EXCEPT ![t] = r.task]
    /\ running' = IF r.task.done \/ <<r.task.req.op, r.task.pc>> \in AwaitPoints
                  THEN 0 ELSE t
    /\ UNCHANGED <<response, nreq>>
    /\ UNCHANGED nlpVars

ToggleStep(t) ==
    /\ CanRun(t)
    /\ tasks[t].req.op = "toggle"
    /\ Run(t, toggle_step(policy_rules, tasks[t]))

WeightStep(t) ==
    /\ CanRun(t)
    /\ tasks[t].req.op = "set_weight"
    /\ Run(t, weight_step(policy_rules, tasks[t]))

PresetStep(t) ==
    /\ CanRun(t)
    /\ tasks[t].req.op = "preset"
    /\ Run(t, preset_step(policy_rules, tasks[t]))

GetPolicyStep(t) ==
    /\ CanRun(t)
    /\ tasks[t].req.op = "get_policy"
    /\ Run(t, get_policy_step(policy_rules, tasks[t]))

EvaluateStep(t) ==
    /\ CanRun(t)
    /\ tasks[t].req.op = "evaluate"
    /\ Run(t, evaluate_step(policy_rules, tasks[t]))

(***************************************************************************)
(* Specifications.                                                         *)
(***************************************************************************)
\* The policy store under toggle, weight, preset and listing requests, with
\* evaluations of the probe inputs between them.
Next ==
    \/ \E rule_code \in RuleCodeInputs : TogglePolicyRule(rule_code)
    \/ \E rule_code \in RuleCodeInputs, weight \in WeightInputs :
          UpdatePolicyWeight(rule_code, weight)
    \/ \E name \in PresetInputs : ApplyPolicyPreset(name)
    \/ GetPolicy
    \/ \E in \in ProbeInputs : EvaluateCase(in[1], in[2])

Spec == Init /\ [][Next]_vars

\* Extraction, its cache and the case handler.
NextNlp ==
    \/ \E text \in Texts, ctor_raises \in BOOLEAN, reply \in Replies :
          ExtractTextFeatures(text, ctor_raises, reply)
    \/ ClearCache
    \/ \E case_id \in CaseIdInputs, ctor_raises \in BOOLEAN, reply \in Replies :
          GetCaseById(case_id, ctor_raises, reply)

SpecNlp == InitNlp /\ [][NextNlp]_vars

\* One evaluation of each (case, text_features) input under the initial
\* policy store.
NextEval ==
    /\ response.op = "idle"
    /\ \E in \in EvalInputs : EvaluateCase(in[1], in[2])

SpecEval == Init /\ [][NextEval]_vars

\* The action classifier on each score of the range.
NextClassify ==
    /\ response.op = "idle"
    /\ \E score \in (0 - ClassifyBelow)..ClassifyMax : ScoreToAction(score)

SpecClassify == Init /\ [][NextClassify]_vars

\* Concurrent policy and evaluation requests on the event loop.
NextConc ==
    \/ \E req \in ConcRequests : Arrive(req)
    \/ \E t \in DOMAIN tasks : ToggleStep(t)
    \/ \E t \in DOMAIN tasks : WeightStep(t)
    \/ \E t \in DOMAIN tasks : PresetStep(t)
    \/ \E t \in DOMAIN tasks : GetPolicyStep(t)
    \/ \E t \in DOMAIN tasks : EvaluateStep(t)

SpecConc == Init /\ [][NextConc]_vars

(***************************************************************************)
(* Properties.                                                             *)
(***************************************************************************)
\* The policy key of a reason (spec 4.3 and 4.4: one key per evaluator, the
\* text-signal group under TEXT_SIGNALS).
RuleOf(factor) ==
    CASE factor = "Complaint Severity" -> "COMPLAINT_SEVERITY"
      [] factor = "Delivery Delay" -> "HIGH_DELAY"
      [] factor = "Restaurant Reliability" -> "RESTAURANT_ERROR"
      [] factor = "Customer History" -> "CUSTOMER_RISK"
      [] factor = "Evidence Quality" -> "PHOTO_EVIDENCE"
      [] factor = "Order Value" -> "ORDER_VALUE"
      [] OTHER -> "TEXT_SIGNALS"

RECURSIVE SumEnabledImpacts(_, _)
\* Sum of the impacts of the reasons whose rule is enabled in rules.
SumEnabledImpacts(reasons, rules) ==
    IF reasons = <<>> THEN 0
    ELSE (IF rules[RuleOf(Head(reasons).factor)].enabled
          THEN Head(reasons).impact ELSE 0)
         + SumEnabledImpacts(Tail(reasons), rules)

RECURSIVE SumWeightedImpacts(_, _)
\* Sum of impact * weight (in hundredths of a point) over the reasons whose
\* rule is enabled in rules.
SumWeightedImpacts(reasons, rules) ==
    IF reasons = <<>> THEN 0
    ELSE (IF rules[RuleOf(Head(reasons).factor)].enabled
          THEN Head(reasons).impact
               * rules[RuleOf(Head(reasons).factor)].weight.hundredths
          ELSE 0)
         + SumWeightedImpacts(Tail(reasons), rules)

AllWeightsOne == \A code \in RuleCodes : policy_rules[code].weight = Float(100)

NoWeightNaN == \A code \in RuleCodes : ~policy_rules[code].weight.nan

\* C1: an evaluation made while rules are switched off by toggle (all
\* weights still 1.0) returns the sum of the impacts of the enabled rules
\* only; with every rule enabled again it returns the full sum.
C1_ToggleRemovesContribution ==
    (response.op = "evaluate" /\ AllWeightsOne)
        => response.suggestion[1].score
             = SumEnabledImpacts(response.suggestion[1].reasons, policy_rules)

\* The probe inputs without a bundle or with one whose signals are scored.
ScoredProbes ==
    {in \in ProbeInputs : in[2] = <<>> \/ in[2][1].confidence > 0}

C3_ScoreDecomposition ==
    (response.op = "evaluate" /\ NoWeightNaN)
        => response.suggestion[1].score * 100
             = SumWeightedImpacts(response.suggestion[1].reasons, policy_rules)

\* C4: the classifier gives REFUND from 70, MANUAL_REVIEW with confidence
\* 0.6 on [65, 70), PARTIAL on [40, 65), REJECT below 40, and
\* MANUAL_REVIEW for no score outside [65, 70).
C4_BranchOrder ==
    response.op = "classify"
        => LET S == response.score
               sg == response.suggestion[1]
           IN  /\ S >= 7000 => sg.action = "REFUND"
               /\ (6500 <= S /\ S < 7000)
                    => (sg.action = "MANUAL_REVIEW" /\ sg.confidence = 8400)
               /\ (4000 <= S /\ S < 6500) => sg.action = "PARTIAL"
               /\ S < 4000 => sg.action = "REJECT"
               /\ sg.action = "MANUAL_REVIEW" => (6500 <= S /\ S < 7000)

C4_Witness ==
    /\ response.op = "classify"
    /\ response.score = 4500
    /\ response.suggestion[1].action = "PARTIAL"

\* C5: every evaluation returns a Suggestion whose action is one of the
\* four actions and whose confidence is in [0, 1].
C5_ActionAndConfidence ==
    response.op = "evaluate"
        => /\ response.status = 200
           /\ response.suggestion # <<>>
           /\ response.suggestion[1].action
                \in {"REFUND", "PARTIAL", "REJECT", "MANUAL_REVIEW"}
           /\ response.suggestion[1].confidence >= 0
           /\ response.suggestion[1].confidence <= 14000

C5_Witness ==
    /\ response.op = "evaluate"
    /\ response.text_features # <<>>
    /\ response.suggestion[1].score = -23
    /\ response.suggestion[1].action = "REJECT"
    /\ response.suggestion[1].confidence = 12600

\* The provider failed or is not configured in the request just answered.
ProviderFailedOrUnconfigured ==
    \/ response.provider_called /\ response.reply_kind # "ok"
    \/ ~response.provider_called /\ ~response.raised /\ _client = "None"

\* C6: a case with complaint text whose extraction failed or is not
\* configured gets the Suggestion the same case gets with no bundle.
C6_FailureSameAsNoBundle ==
    (/\ response.op = "get_case"
     /\ response.status = 200
     /\ response.text # ""
     /\ ProviderFailedOrUnconfigured)
        => response.suggestion = <<evaluate_case(response.case[1], <<>>)>>

C6_Witness ==
    /\ response.op = "get_case"
    /\ response.status = 200
    /\ response.text = "Bad order"
    /\ response.reply_kind = "missing_field"
    /\ response.text_features = <<_get_fallback_features>>

\* C7: extract never raises, and on a failure or without a configured key
\* it returns the neutral bundle.
C7_ExtractNeverRaises ==
    response.op = "extract"
        => /\ ~response.raised
           /\ (ProviderFailedOrUnconfigured \/ OPENAI_API_KEY = "")
                => response.text_features = <<_get_fallback_features>>

\* C8 as stated: a toggle or set_weight of an unknown rule fails NotFound
\* (also when the weight is out of range), a set_weight with weight < 0 or
\* weight > 2 on a known rule fails InvalidArgument, apply_preset with a
\* name other than strict, friendly or delay-tolerant fails InvalidArgument,
\* and each failure leaves the store unchanged.
C8_TypedErrors ==
    [][/\ \A code \in RuleCodeInputs \ RuleCodes :
            /\ TogglePolicyRule(code)
                 => (response'.status = 404 /\ policy_rules' = policy_rules)
            /\ \A weight \in WeightInputs :
                 UpdatePolicyWeight(code, weight)
                   => (response'.status = 404 /\ policy_rules' = policy_rules)
       /\ \A code \in RuleCodes, weight \in WeightInputs :
            ((FloatLt(weight, Float(0)) \/ FloatGt(weight, Float(200)))
                /\ UpdatePolicyWeight(code, weight))
              => (response'.status = 400 /\ policy_rules' = policy_rules)
       /\ \A name \in PresetInputs :
            (name \notin {"strict", "friendly", "delay-tolerant"}
                /\ ApplyPolicyPreset(name))
              => (response'.status = 400 /\ policy_rules' = policy_rules)
      ]_vars

\* C8 as amended: the same, the preset name being compared after
\* lower-casing.
C8_TypedErrorsLowerCased ==
    [][/\ \A code \in RuleCodeInputs \ RuleCodes :
            /\ TogglePolicyRule(code)
                 => (response'.status = 404 /\ policy_rules' = policy_rules)
            /\ \A weight \in WeightInputs :
                 UpdatePolicyWeight(code, weight)
                   => (response'.status = 404 /\ policy_rules' = policy_rules)
       /\ \A code \in RuleCodes, weight \in WeightInputs :
            ((FloatLt(weight, Float(0)) \/ FloatGt(weight, Float(200)))
                /\ UpdatePolicyWeight(code, weight))
              => (response'.status = 400 /\ policy_rules' = policy_rules)
       /\ \A name \in PresetInputs :
            (Lower(name) \notin {"strict", "friendly", "delay-tolerant"}
                /\ ApplyPolicyPreset(name))
              => (response'.status = 400 /\ policy_rules' = policy_rules)
      ]_vars

C8_Witness ==
    /\ response.op = "set_weight"
    /\ response.status = 404
    /\ response.weight = Float(201)
    /\ policy_rules # InitialPolicyRules

\* C9: a toggle of a known rule flips that rule's enabled flag and changes
\* nothing else in the store, and a second toggle of the same rule restores
\* the store.
C9_ToggleFrame ==
    [][\A code \in RuleCodes :
          TogglePolicyRule(code)
            => /\ response'.status = 200
               /\ DOMAIN policy_rules' = DOMAIN policy_rules
               /\ policy_rules'[code].enabled = ~policy_rules[code].enabled
               /\ policy_rules'[code].weight = policy_rules[code].weight
               /\ policy_rules'[code].description
                    = policy_rules[code].description
               /\ \A other \in RuleCodes \ {code} :
                     policy_rules'[other] = policy_rules[other]
               /\ toggle_policy_rule(policy_rules', code).rules = policy_rules
      ]_vars

C9_Witness ==
    /\ response.op = "toggle"
    /\ response.status = 200
    /\ response.enabled = TRUE
    /\ nreq = 2
    /\ policy_rules = InitialPolicyRules

\* C10: in every reachable store every weight is within [0, 2] and the
\* rule codes are the eight initial ones.
C10_WeightsInRange ==
    /\ DOMAIN policy_rules = RuleCodes
    /\ \A code \in RuleCodes :
          /\ ~policy_rules[code].weight.nan
          /\ policy_rules[code].weight.hundredths >= 0
          /\ policy_rules[code].weight.hundredths <= 200

\* C11: applying a preset a second time leaves the store as the first
\* application left it.
C11_PresetIdempotent ==
    [][\A name \in PresetInputs :
          ApplyPolicyPreset(name)
            => apply_policy_preset(policy_rules', name).rules = policy_rules'
      ]_vars

C11_Witness ==
    /\ response.op = "preset"
    /\ response.status = 200
    /\ response.preset = "strict"
    /\ nreq = 2
    /\ policy_rules = apply_policy_preset(InitialPolicyRules, "strict").rules

\* The fields (rule, field, value) a preset sets.
PresetWrites(preset) ==
    CASE preset = "strict"
           -> {<<"CUSTOMER_RISK", "weight", 150>>,
               <<"CUSTOMER_RISK", "enabled", 1>>,
               <<"VAGUE_COMPLAINT", "weight", 130>>,
               <<"VAGUE_COMPLAINT", "enabled", 1>>,
               <<"PHOTO_EVIDENCE", "weight", 120>>}
      [] preset = "friendly"
           -> {<<"CUSTOMER_RISK", "weight", 50>>,
               <<"CUSTOMER_RISK", "enabled", 1>>,
               <<"PHOTO_EVIDENCE", "weight", 150>>,
               <<"PHOTO_EVIDENCE", "enabled", 1>>,
               <<"VAGUE_COMPLAINT", "weight", 50>>}
      [] preset = "delay-tolerant"
           -> {<<"HIGH_DELAY", "weight", 50>>,
               <<"HIGH_DELAY", "enabled", 1>>,
               <<"COMPLAINT_SEVERITY", "weight", 120>>}
      [] OTHER -> {}

\* C12: a preset sets exactly the weights and enabled flags its definition
\* lists, to the listed values, and every other weight, enabled flag and
\* description keeps its prior value.
C12_PresetFrame ==
    [][\A name \in PresetInputs :
          (Lower(name) \in {"strict", "friendly", "delay-tolerant"}
              /\ ApplyPolicyPreset(name))
            => /\ response'.status = 200
               /\ DOMAIN policy_rules' = DOMAIN policy_rules
               /\ \A code \in RuleCodes :
                    /\ policy_rules'[code].description
                         = policy_rules[code].description
                    /\ policy_rules'[code].weight
                         = IF \E w \in PresetWrites(Lower(name)) :
                                 w[1] = code /\ w[2] = "weight"
                           THEN Float((CHOOSE w \in PresetWrites(Lower(name)) :
                                         w[1] = code /\ w[2] = "weight")[3])
                           ELSE policy_rules[code].weight
                    /\ policy_rules'[code].enabled
                         = IF <<code, "enabled", 1>>
                                 \in PresetWrites(Lower(name))
                           THEN TRUE
                           ELSE policy_rules[code].enabled
      ]_vars

C12_Witness ==
    /\ response.op = "preset"
    /\ response.status = 200
    /\ response.preset = "strict"
    /\ ~policy_rules["PHOTO_EVIDENCE"].enabled
    /\ policy_rules["PHOTO_EVIDENCE"].weight = Float(120)
    /\ policy_rules["CUSTOMER_RISK"].weight = Float(150)

SixFactors ==
    <<"Complaint Severity", "Delivery Delay", "Restaurant Reliability",
      "Customer History", "Evidence Quality", "Order Value">>

RECURSIVE SumImpacts(_)
\* Sum of the impacts of a sequence of reasons.
SumImpacts(reasons) ==
    IF reasons = <<>> THEN 0
    ELSE Head(reasons).impact + SumImpacts(Tail(reasons))

\* C14: an evaluation with no bundle or with a bundle of confidence 0
\* returns the six unconditional reasons only and their sum as the score,
\* whatever the flags and float fields of the bundle.
C14_TextGroupGated ==
    (/\ response.op = "evaluate"
     /\ \/ response.text_features = <<>>
        \/ response.text_features[1].confidence = 0)
        => /\ Len(response.suggestion[1].reasons) = 6
           /\ \A i \in 1..6 :
                 response.suggestion[1].reasons[i].factor = SixFactors[i]
           /\ response.suggestion[1].score
                = SumImpacts(response.suggestion[1].reasons)

C14_Witness ==
    /\ response.op = "evaluate"
    /\ response.text_features # <<>>
    /\ response.text_features[1].confidence = 0
    /\ response.text_features[1].temperature_problem
    /\ response.text_features[1].vague_complaint
    /\ response.text_features[1].evidence_strength = 61
    /\ response.text_features[1].customer_aggression = 71
    /\ Len(response.suggestion[1].reasons) = 6

\* The rule table of the claim: the impact of each unconditional rule.
TableImpacts(case) ==
    <<CASE case.complaint_type = "NEVER_ARRIVED" -> 35
        [] case.complaint_type = "DAMAGED_FOOD" -> 25
        [] case.complaint_type = "WRONG_ORDER" -> 20
        [] case.complaint_type = "MISSING_ITEMS" -> 18
        [] case.complaint_type = "QUALITY_ISSUE" -> 15
        [] case.complaint_type = "LATE_DELIVERY" -> 10,
      IF case.delivery_delay_min >= 60 THEN 20
      ELSE IF case.delivery_delay_min >= 30 THEN 12
      ELSE IF case.delivery_delay_min >= 15 THEN 5 ELSE 0,
      IF case.restaurant_error_rate >= 300 THEN 15
      ELSE IF case.restaurant_error_rate >= 150 THEN 8
      ELSE IF case.restaurant_error_rate >= 50 THEN 3 ELSE 0,
      IF case.customer_refund_rate >= 400 THEN -15
      ELSE IF case.customer_refund_rate >= 200 THEN -8
      ELSE IF case.customer_refund_rate >= 100 THEN -3 ELSE 5,
      IF case.photo_provided THEN 10 ELSE -5,
      IF case.order_value >= 10000 THEN 10
      ELSE IF case.order_value >= 5000 THEN 5
      ELSE IF case.order_value >= 2000 THEN 2 ELSE 0>>

\* C15: the first six reasons of every evaluation are the unconditional
\* rules in their fixed order with the impacts of the rule table; any other
\* reason comes after them and is a text-signal reason.
C15_RuleTable ==
    response.op = "evaluate"
        => LET reasons == response.suggestion[1].reasons
           IN  /\ Len(reasons) >= 6
               /\ \A i \in 1..6 :
                     /\ reasons[i].factor = SixFactors[i]
                     /\ reasons[i].impact = TableImpacts(response.case[1])[i]
               /\ \A i \in 7..Len(reasons) :
                     \A k \in 1..6 : reasons[i].factor # SixFactors[k]

C15_Witness ==
    /\ response.op = "evaluate"
    /\ response.case[1].delivery_delay_min = 30
    /\ response.case[1].restaurant_error_rate = 299
    /\ response.case[1].customer_refund_rate = 400
    /\ response.case[1].order_value = 1999
    /\ response.suggestion[1].reasons[2].impact = 12
    /\ response.suggestion[1].reasons[3].impact = 8

TextTerms(b) ==
    <<<<b.temperature_problem, "TEXT_SIGNAL_Temperature", 8>>,
      <<b.missing_item \/ b.wrong_item, "TEXT_SIGNAL_ItemIssue", 12>>,
      <<b.delivery_spill, "TEXT_SIGNAL_DeliverySpill", 10>>,
      <<b.food_quality_issue, "TEXT_SIGNAL_FoodQuality", 7>>,
      <<b.packaging_problem, "TEXT_SIGNAL_Packaging", 6>>,
      <<b.vague_complaint, "TEXT_SIGNAL_VagueComplaint", -8>>,
      <<b.customer_aggression > 70, "TEXT_SIGNAL_Aggression", -5>>,
      <<b.evidence_strength > 60, "TEXT_SIGNAL_EvidenceStrength", 8>>>>

Fired(term) == term[1]

\* C17: when the text-signal group fires, the reasons after the sixth are
\* the terms that fired, in the fixed order and with the fixed impacts, the
\* item term once, saying "missing" whenever missing_item is true, and the
\* score is the sum of all the impacts.
C17_TextTerms ==
    (/\ response.op = "evaluate"
     /\ response.text_features # <<>>
     /\ response.text_features[1].confidence > 0)
        => LET b == response.text_features[1]
               reasons == response.suggestion[1].reasons
               fired == SelectSeq(TextTerms(b), Fired)
           IN  /\ Len(reasons) = 6 + Len(fired)
               /\ \A i \in 1..Len(fired) :
                     /\ reasons[6 + i].factor = fired[i][2]
                     /\ reasons[6 + i].impact = fired[i][3]
                     /\ reasons[6 + i].factor = "TEXT_SIGNAL_ItemIssue"
                          => reasons[6 + i].explanation
                               = IF b.missing_item THEN "missing item"
                                                   ELSE "wrong item"
               /\ response.suggestion[1].score = SumImpacts(reasons)

C17_Witness ==
    /\ response.op = "evaluate"
    /\ response.text_features # <<>>
    /\ response.text_features[1].confidence > 0
    /\ response.text_features[1].missing_item
    /\ response.text_features[1].wrong_item
    /\ response.text_features[1].customer_aggression = 70
    /\ response.text_features[1].evidence_strength = 61
    /\ Len(response.suggestion[1].reasons) = 13

RECURSIVE SumFired(_)
\* Sum of the impacts of the text-signal terms that fire.
SumFired(terms) ==
    IF terms = <<>> THEN 0
    ELSE (IF Head(terms)[1] THEN Head(terms)[3] ELSE 0) + SumFired(Tail(terms))

\* The unweighted score of a case and bundle by the rule table and the
\* text-signal terms alone.
PlainScore(case, text_features) ==
    TableImpacts(case)[1] + TableImpacts(case)[2] + TableImpacts(case)[3]
    + TableImpacts(case)[4] + TableImpacts(case)[5] + TableImpacts(case)[6]
    + (IF text_features # <<>> /\ text_features[1].confidence > 0
       THEN SumFired(TextTerms(text_features[1])) ELSE 0)

Extracted(resp) == resp.op \in {"extract", "get_case"} /\ resp.text # ""

\* C18: an extract of a text whose bundle is stored returns that bundle
\* without calling the provider, whatever the provider would answer; a
\* successful provider reply is stored under the key of the text; a stored
\* entry changes or disappears only in clear_cache, which removes every
\* entry; and on a text without an entry an extract with a client consults
\* the provider.
C18_CacheHitUntilCleared ==
    [][/\ \A text \in Texts :
            LET cache_key == _get_cache_key(text)
            IN  (Extracted(response') /\ response'.text = text)
                  => /\ _feature_cache[cache_key] # None
                        => /\ response'.text_features
                                 = _feature_cache[cache_key]
                           /\ ~response'.provider_called
                           /\ ~response'.raised
                           /\ _feature_cache' = _feature_cache
                     /\ (_feature_cache[cache_key] = None
                         /\ _client' = "client")
                        => response'.provider_called
                     /\ (response'.provider_called
                         /\ response'.reply_kind = "ok")
                        => _feature_cache'[cache_key]
                               = response'.text_features
       /\ \A cache_key \in CacheKeys :
            (/\ _feature_cache[cache_key] # None
             /\ _feature_cache'[cache_key] # _feature_cache[cache_key])
                => response'.op = "clear_cache"
       /\ response'.op = "clear_cache"
            => \A cache_key \in CacheKeys : _feature_cache'[cache_key] = None
      ]_vars

\* An extract answered from the cache while the other text has no entry.
C18_Witness ==
    /\ response.op = "extract"
    /\ response.text = "Bad order"
    /\ ~response.provider_called
    /\ response.text_features = _feature_cache[_get_cache_key("Bad order")]
    /\ response.text_features # None
    /\ response.text_features # <<_get_fallback_features>>
    /\ _feature_cache[_get_cache_key(
           "The soup arrived cold and one item was missing")] = None

Mutates(req) == req.op \in {"toggle", "set_weight", "preset"}

Apply(rules, req) ==
    CASE req.op = "toggle" -> toggle_policy_rule(rules, req.rule_code).rules
      [] req.op = "set_weight"
           -> update_policy_weight(rules, req.rule_code, req.weight).rules
      [] req.op = "preset" -> apply_policy_preset(rules, req.preset).rules

\* The stores that the tasks of ids leave when each runs alone, in any
\* order, from the initial store.
RECURSIVE StoresAfter(_)
StoresAfter(ids) ==
    IF ids = {}
    THEN {InitialPolicyRules}
    ELSE UNION {{Apply(s, tasks[t].req) : s \in StoresAfter(ids \ {t})} :
                   t \in ids}

StartedMutators ==
    {t \in DOMAIN tasks :
        Mutates(tasks[t].req) /\ (tasks[t].done \/ tasks[t].pc > 1)}

\* C13: the rules a get_policy returned are the store as some of the
\* started mutations left it, each applied whole; an evaluation returns
\* what the engine computes from the case alone; and when no handler is in
\* progress the store is what the completed mutations give when each is
\* applied whole in some order, so each of two racing toggles counts.
C13_NoTornOrLostUpdate ==
    /\ \A t \in DOMAIN tasks :
         (tasks[t].done /\ tasks[t].req.op = "get_policy")
            => \E ids \in SUBSET StartedMutators :
                  \E s \in StoresAfter(ids) : tasks[t].rules = get_policy(s)
    /\ \A t \in DOMAIN tasks :
         (tasks[t].done /\ tasks[t].req.op = "evaluate")
            => tasks[t].score = evaluate_case(ConcCase, None).score
    /\ (\A t \in DOMAIN tasks : tasks[t].done \/ tasks[t].pc = 1)
         => policy_rules \in StoresAfter(
                {t \in DOMAIN tasks : Mutates(tasks[t].req) /\ tasks[t].done})

\* Two toggles of CUSTOMER_RISK and a get_policy that ran between them.
C13_Witness ==
    /\ Len(tasks) = 3
    /\ \A t \in DOMAIN tasks : tasks[t].done
    /\ Cardinality({t \in DOMAIN tasks : tasks[t].req.op = "toggle"}) = 2
    /\ \E t \in DOMAIN tasks :
         /\ tasks[t].req.op = "get_policy"
         /\ \E entry \in tasks[t].rules :
              entry.rule_code = "CUSTOMER_RISK" /\ ~entry.enabled
    /\ policy_rules["CUSTOMER_RISK"].enabled

====
